---- MODULE Spec2Model ----
(***************************************************************************)
(* Request dispatch of the Express.js applications of src/Express.js.      *)
(*                                                                         *)
(* The file registers middleware and route handlers on several `app`       *)
(* objects.  Each registration is a layer of that app's chain; the handler *)
(* bodies are translated from the file.  The router that walks a chain     *)
(* (path matching, next(), next(err), the default fault response) is the   *)
(* express library, which the file only calls; it is modelled after the    *)
(* dispatcher of the specification (sections 4.1 to 4.4).                  *)
(*                                                                         *)
(* A path is the sequence of its segments: "/users/42" is                  *)
(* <<"users", "42">>, "/" is <<>>, "/users/" is <<"users", "">>.           *)
(* A text body is the sequence of the pieces it is concatenated from:      *)
(* `User ID: ${x}` is <<"User ID: ", Str(x)>>.                             *)
(***************************************************************************)
EXTENDS Integers, Sequences, FiniteSets, TLC

VARIABLES conn, users, redisQ, store

vars == <<conn, users, redisQ, store>>

\* ------------------------------------------------------------------ bounds

\* Most users the store holds; POST /api/users is not admitted beyond it.
MaxUsers == 2

\* Requests in flight at once in the /data specification.
NData == 2

\* ------------------------------------------------------------- JS values

Undefined == "#undefined"
Null == "#null"

\* Template-literal conversion `${x}`.
Str(x) == IF x = Undefined THEN "undefined" ELSE x

\* if (data): null, undefined and the empty string are falsy.
Truthy(d) == d # Null /\ d # Undefined /\ d # ""

JsString(s) == [type |-> "string", val |-> s]
JsNumber(s) == [type |-> "number", val |-> s]
JsUndefined == [type |-> "undefined", val |-> ""]

\* a == b on the values above: a number and a numeric string compare by value.
LooseEquals(a, b) == a.val = b.val /\ a.type # "undefined" /\ b.type # "undefined"

\* a === b: same type and same value.
StrictEquals(a, b) == a = b

Min(S) == CHOOSE x \in S : \A y \in S : x <= y

\* ------------------------------------------------------------ path matcher

Lit(s) == [k |-> "lit", v |-> s]
Param(n) == [k |-> "param", v |-> n]

\* Same number of segments, literals equal, a parameter segment non-empty.
MatchPath(pattern, path) ==
    /\ Len(pattern) = Len(path)
    /\ \A i \in 1..Len(pattern) :
         IF pattern[i].k = "lit" THEN pattern[i].v = path[i] ELSE path[i] # ""

ParamNames(pattern) == {pattern[i].v : i \in {j \in 1..Len(pattern) : pattern[j].k = "param"}}

\* req.params of a matched route: each parameter name bound to its segment.
Bind(pattern, path) ==
    [n \in ParamNames(pattern) |->
        path[CHOOSE i \in 1..Len(pattern) : pattern[i] = Param(n)]]

\* obj.name on a params / query object.
Get(obj, name) == IF name \in DOMAIN obj THEN obj[name] ELSE Undefined

\* ------------------------------------------------------------------ layers

Use(id, arity) == [id |-> id, kind |-> "use", method |-> "ANY", pattern |-> <<>>, arity |-> arity]
Route(id, method, pattern, arity) ==
    [id |-> id, kind |-> "route", method |-> method, pattern |-> pattern, arity |-> arity]

static28 == Use("static28", 3)
logger31 == Use("logger31", 3)
\* Variant: the error handler declared without its fourth parameter.
errorHandler37ThreeArgs == Use("errorHandler37", 3)
errorHandler37 == Use("errorHandler37", 4)
getRoot42 == Route("getRoot42", "GET", <<>>, 2)

getRoot66 == Route("getRoot66", "GET", <<>>, 2)
postSubmit70 == Route("postSubmit70", "POST", <<Lit("submit")>>, 2)
\* Variant: the parameter named :id, while the handler reads req.params.userId.
getUser75WrongName == Route("getUser75", "GET", <<Lit("users"), Param("id")>>, 2)
getUser75 == Route("getUser75", "GET", <<Lit("users"), Param("userId")>>, 2)
getSearch80 == Route("getSearch80", "GET", <<Lit("search")>>, 2)
getHello98 == Route("getHello98", "GET", <<Lit("hello")>>, 2)
static126 == Use("static126", 3)
errorHandler136 == Use("errorHandler136", 4)
bodyParserJson229 == Use("bodyParserJson229", 3)
cors230 == Use("cors230", 3)
morgan231 == Use("morgan231", 3)
getData248 == Route("getData248", "GET", <<Lit("data")>>, 2)
helmet279 == Use("helmet279", 3)
passportInit280 == Use("passportInit280", 3)
postApiUsers286 == Route("postApiUsers286", "POST", <<Lit("api"), Lit("users")>>, 2)

getHello110 == Route("getHello110", "GET", <<Lit("hello")>>, 2)
getRoot160 == Route("getRoot160", "GET", <<>>, 2)

expressJson179 == Use("expressJson179", 3)
getUsers183 == Route("getUsers183", "GET", <<Lit("api"), Lit("users")>>, 2)
postUsers187 == Route("postUsers187", "POST", <<Lit("api"), Lit("users")>>, 2)
putUser193 == Route("putUser193", "PUT", <<Lit("api"), Lit("users"), Param("userId")>>, 2)
deleteUser200 == Route("deleteUser200", "DELETE", <<Lit("api"), Lit("users"), Param("userId")>>, 2)

\* ------------------------------------------------------------------ chains

\* Variant: the error handler registered first.
App1ChainErrorFirst == <<errorHandler37, static28, logger31, getRoot42>>
\* The first example: lines 24-48, in registration order.
App1Chain == <<static28, logger31, errorHandler37, getRoot42>>

\* Variant: the error handler registered last.
MainChainErrorLast ==
    <<getRoot66, postSubmit70, getUser75, getSearch80, getHello98, static126,
      bodyParserJson229, cors230, morgan231, getData248,
      helmet279, passportInit280, postApiUsers286, errorHandler136>>
\* Variant: express.static registered before the routes.
MainChainStaticFirst ==
    <<static126, getRoot66, postSubmit70, getUser75, getSearch80, getHello98,
      errorHandler136, bodyParserJson229, cors230, morgan231, getData248,
      helmet279, passportInit280, postApiUsers286>>
\* The registrations outside the blocks that declare their own app.
MainChain ==
    <<getRoot66, postSubmit70, getUser75, getSearch80, getHello98, static126,
      errorHandler136, bodyParserJson229, cors230, morgan231, getData248,
      helmet279, passportInit280, postApiUsers286>>

EjsChain == <<getHello110>>
BasicChain == <<getRoot160>>
RestChain == <<expressJson179, getUsers183, postUsers187, putUser193, deleteUser200>>

Chain(a) ==
    CASE a = "App1" -> App1Chain
      [] a = "Main" -> MainChain
      [] a = "Ejs" -> EjsChain
      [] a = "Basic" -> BasicChain
      [] a = "Rest" -> RestChain

\* ---------------------------------------------------------------- requests

NoBody == [kind |-> "none"]
Malformed == [kind |-> "malformed"]
JsonBody(o) == [kind |-> "json", obj |-> o]

Obj(id, name) == [id |-> id, name |-> name]
EmptyObject == Obj(JsUndefined, Undefined)
\* req.body before any body parser ran.
NotParsed == [id |-> JsUndefined, name |-> Undefined, undefined |-> TRUE]

Objects ==
    {EmptyObject,
     Obj(JsUndefined, "Al"), Obj(JsUndefined, "Alice"),
     Obj(JsString("1"), "Alice"), Obj(JsString("1"), "Al"),
     Obj(JsString("2"), "Alice"), Obj(JsNumber("1"), "Alice")}

NoQuery == [n \in {} |-> ""]
Query(v) == [q |-> v]

Methods == {"GET", "POST", "PUT", "DELETE"}

Paths ==
    {<<>>, <<"submit">>, <<"users", "42">>, <<"users", "all">>, <<"users">>,
     <<"users", "">>, <<"search">>, <<"hello">>, <<"data">>,
     <<"api", "users">>, <<"api", "users", "1">>, <<"api", "users", "2">>}

\* GET and DELETE requests carry no body; a query string is sent to /search.
Requests ==
    {rq \in [method : Methods, path : Paths,
             query : {NoQuery, Query("cats"), Query("dogs")},
             body : {NoBody, Malformed} \cup {JsonBody(o) : o \in Objects}] :
        /\ rq.method \in {"GET", "DELETE"} => rq.body = NoBody
        /\ rq.query # NoQuery => rq.path = <<"search">>}

RestRequests ==
    {rq \in Requests :
        /\ rq.path \in {<<>>, <<"api", "users">>, <<"api", "users", "1">>,
                        <<"api", "users", "2">>}
        /\ rq.query = NoQuery}

DataRequest == [method |-> "GET", path |-> <<"data">>, query |-> NoQuery, body |-> NoBody]

\* What fetchDataFromDatabase() may return.
DbValues == {"", "v1"}

\* --------------------------------------------------------------- responses

NoRes == [status |-> 0, kind |-> "none", payload |-> <<>>]
Text(status, pieces) == [status |-> status, kind |-> "text", payload |-> pieces]
Json(status, v) == [status |-> status, kind |-> "json", payload |-> v]
JsonList(status, l) == [status |-> status, kind |-> "jsonList", payload |-> l]
Empty(status) == [status |-> status, kind |-> "empty", payload |-> <<>>]

\* The response emitted when a failure finds no error handler.
DefaultFaultResponse == [status |-> 500, kind |-> "fault", payload |-> <<>>]

\* ------------------------------------------------- what a handler can do

\* ctx: [req, params, body, users, error]; a result says whether the handler
\* wrote a terminal response, how it left (next(), next(err) or a throw, a
\* pending callback, or a plain return), and the req.body and users it left.
Send(ctx, res) ==
    [send |-> TRUE, res |-> res, cont |-> "none", err |-> Null,
     body |-> ctx.body, users |-> ctx.users]
CallNext(ctx) ==
    [send |-> FALSE, res |-> NoRes, cont |-> "next", err |-> Null,
     body |-> ctx.body, users |-> ctx.users]
CallNextErr(ctx, e) ==
    [send |-> FALSE, res |-> NoRes, cont |-> "error", err |-> e,
     body |-> ctx.body, users |-> ctx.users]
Return(ctx) ==
    [send |-> FALSE, res |-> NoRes, cont |-> "none", err |-> Null,
     body |-> ctx.body, users |-> ctx.users]
Pending(ctx) ==
    [send |-> FALSE, res |-> NoRes, cont |-> "async", err |-> Null,
     body |-> ctx.body, users |-> ctx.users]
SendAndNext(ctx, res) == [Send(ctx, res) EXCEPT !.cont = "next"]

\* express.static('public'): serves a file to a GET, falls through when there
\* is none, reports a file-system error.
StaticHandler(ctx) ==
    IF ctx.req.method = "GET"
    THEN {Send(ctx, Text(200, <<"file">>)), CallNext(ctx), CallNextErr(ctx, "static error")}
    ELSE {CallNext(ctx)}

\* Variant: the logger writes a response and still calls next().
LoggerHandlerSends(ctx) == {SendAndNext(ctx, Text(200, <<"Time">>))}
LoggerHandler(ctx) == {CallNext(ctx)}

ErrorHandler(ctx) == {Send(ctx, Text(500, <<"Something broke!">>))}

HelloWorldHandler(ctx) == {Send(ctx, Text(200, <<"Hello World!">>))}
HomeHandler(ctx) == {Send(ctx, Text(200, <<"Home Page">>))}
SubmitHandler(ctx) == {Send(ctx, Text(200, <<"Form Submitted">>))}

UserHandler(ctx) ==
    {Send(ctx, Text(200, <<"User ID: ", Str(Get(ctx.params, "userId"))>>))}

\* Variant: the handler reads req.params.q.
SearchHandlerParams(ctx) ==
    {Send(ctx, Text(200, <<"Search Query: ", Str(Get(ctx.params, "q"))>>))}
SearchHandler(ctx) ==
    {Send(ctx, Text(200, <<"Search Query: ", Str(Get(ctx.req.query, "q"))>>))}

\* res.render('hello', ...): the rendered page, or next(err) when rendering fails.
RenderHandler(ctx) ==
    {Send(ctx, Text(200, <<"rendered hello">>)), CallNextErr(ctx, "render error")}

\* express.json() / bodyParser.json(): req.body is the parsed object ({} when
\* there is no body); malformed JSON is reported with next(err).
JsonParser(ctx) ==
    CASE ctx.req.body.kind = "malformed" -> {CallNextErr(ctx, "bad json")}
      [] ctx.req.body.kind = "none" -> {[CallNext(ctx) EXCEPT !.body = EmptyObject]}
      [] OTHER -> {[CallNext(ctx) EXCEPT !.body = ctx.req.body.obj]}

\* cors(), morgan('combined'), helmet(), passport.initialize().
PassThrough(ctx) == {CallNext(ctx)}

\* app.get('/data'): client.get('key', callback) and return.
DataHandler(ctx) == {Pending(ctx)}

MinNameLen == 3

\* schema.validate(req.body).error for Joi.object({name: string().min(3).required()}).
ValidationError(body) ==
    CASE body = NotParsed -> Null
      [] body.id # JsUndefined -> "\"id\" is not allowed"
      [] body.name = Undefined -> "\"name\" is required"
      [] Len(body.name) < MinNameLen -> "\"name\" length must be at least 3 characters long"
      [] OTHER -> Null

ValidationHandler(ctx) ==
    LET error == ValidationError(ctx.body)
    IN  IF error # Null THEN {Send(ctx, Text(400, <<error>>))} ELSE {Return(ctx)}

GetUsersHandler(ctx) == {Send(ctx, JsonList(200, ctx.users))}

PostUsersHandler(ctx) ==
    {[Send(ctx, Json(201, ctx.body)) EXCEPT !.users = Append(ctx.users, ctx.body)]}

\* Variant: user.id == userId.
UpdateUsersLoose(us, userId, updatedUser) ==
    [k \in 1..Len(us) |->
        IF LooseEquals(us[k].id, JsString(userId)) THEN updatedUser ELSE us[k]]
\* users.map(user => user.id === userId ? updatedUser : user)
UpdateUsers(us, userId, updatedUser) ==
    [k \in 1..Len(us) |->
        IF StrictEquals(us[k].id, JsString(userId)) THEN updatedUser ELSE us[k]]

PutUserHandler(ctx) ==
    {[Send(ctx, Json(200, ctx.body))
        EXCEPT !.users = UpdateUsers(ctx.users, Get(ctx.params, "userId"), ctx.body)]}

\* users.filter(user => user.id !== userId)
RemoveUsers(us, userId) ==
    SelectSeq(us, LAMBDA user : ~StrictEquals(user.id, JsString(userId)))

DeleteUserHandler(ctx) ==
    {[Send(ctx, Empty(204))
        EXCEPT !.users = RemoveUsers(ctx.users, Get(ctx.params, "userId"))]}

\* The function registered under each layer.
Handle(id, ctx) ==
    CASE id \in {"static28", "static126"} -> StaticHandler(ctx)
      [] id = "logger31" -> LoggerHandler(ctx)
      [] id \in {"errorHandler37", "errorHandler136"} -> ErrorHandler(ctx)
      [] id \in {"getRoot42", "getRoot160"} -> HelloWorldHandler(ctx)
      [] id = "getRoot66" -> HomeHandler(ctx)
      [] id = "postSubmit70" -> SubmitHandler(ctx)
      [] id = "getUser75" -> UserHandler(ctx)
      [] id = "getSearch80" -> SearchHandler(ctx)
      [] id \in {"getHello98", "getHello110"} -> RenderHandler(ctx)
      [] id \in {"bodyParserJson229", "expressJson179"} -> JsonParser(ctx)
      [] id \in {"cors230", "morgan231", "helmet279", "passportInit280"} -> PassThrough(ctx)
      [] id = "getData248" -> DataHandler(ctx)
      [] id = "postApiUsers286" -> ValidationHandler(ctx)
      [] id = "getUsers183" -> GetUsersHandler(ctx)
      [] id = "postUsers187" -> PostUsersHandler(ctx)
      [] id = "putUser193" -> PutUserHandler(ctx)
      [] id = "deleteUser200" -> DeleteUserHandler(ctx)

\* -------------------------------------------------------------- dispatcher

\* A layer mounted with app.use matches every request; a route matches its
\* method and its whole path.
Matches(layer, rq) ==
    \/ layer.kind = "use"
    \/ /\ layer.method = rq.method
       /\ MatchPath(layer.pattern, rq.path)

\* A handler declared with four parameters is an error handler.
IsErrorHandler(layer) == layer.arity = 4

\* lookup(method, path): the indices of the matching layers, in registration order.
Lookup(chain, rq) == {j \in 1..Len(chain) : Matches(chain[j], rq)}

\* The next layer to run from index `from`: the first matching layer that is an
\* error handler when an error is being propagated, a normal handler when not;
\* Len(chain) + 1 when there is none.
NextIndex(chain, rq, from, hasErr) ==
    LET cand == {j \in Lookup(chain, rq) : j >= from /\ IsErrorHandler(chain[j]) = hasErr}
    IN  IF cand = {} THEN Len(chain) + 1 ELSE Min(cand)

IdleConn ==
    [state |-> "IDLE", app |-> "App1", req |-> DataRequest, index |-> 0,
     ready |-> FALSE, params |-> NoQuery, body |-> NotParsed, err |-> Null,
     failedAt |-> 0, invoked |-> <<>>, writes |-> 0, writer |-> "none",
     res |-> NoRes, waiting |-> "none", reply |-> Null, fetched |-> FALSE,
     afterMiss |-> FALSE]

Terminal == {"RESPONDED", "DONE"}

\* The key is set, or a SETEX is on its way to the server.
CacheWritten == store # Null \/ \E k \in 1..Len(redisQ) : redisQ[k].op = "setex"

\* A request arrives in a free slot: RUNNING at the first applicable layer.
Arrive(r, a, rq) ==
    /\ conn[r].state = "IDLE"
    /\ conn' = [conn EXCEPT ![r] =
                  [IdleConn EXCEPT !.state = "RUNNING", !.app = a, !.req = rq,
                                   !.index = NextIndex(Chain(a), rq, 1, FALSE),
                                   !.ready = TRUE]]
    /\ UNCHANGED <<users, redisQ, store>>

TutorialApps == {"App1", "Main", "Ejs", "Basic"}

NewRequest == \E r \in DOMAIN conn, a \in TutorialApps, rq \in Requests : Arrive(r, a, rq)

NewRestRequest ==
    \E r \in DOMAIN conn, rq \in RestRequests :
        /\ (rq.method = "POST" /\ rq.path = <<"api", "users">>) => Len(users) < MaxUsers
        /\ Arrive(r, "Rest", rq)

NewDataRequest == \E r \in DOMAIN conn : Arrive(r, "Main", DataRequest)

\* The connection after the handler of `layer` returned `out`.
After(c, chain, layer, params, out) ==
    LET wrote == out.send
        base == [c EXCEPT !.invoked = Append(c.invoked, c.index),
                          !.params = params,
                          !.body = out.body,
                          !.writes = c.writes + (IF wrote THEN 1 ELSE 0),
                          !.res = IF wrote /\ c.writes = 0 THEN out.res ELSE c.res,
                          !.writer = IF wrote /\ c.writes = 0 THEN layer.id ELSE c.writer,
                          !.ready = FALSE]
    IN  CASE out.cont = "next" ->
               [base EXCEPT !.state = "RUNNING", !.err = Null, !.ready = TRUE,
                            !.index = NextIndex(chain, c.req, c.index + 1, FALSE)]
          [] out.cont = "error" ->
               [base EXCEPT !.state = "ERRORED", !.err = out.err, !.failedAt = c.index]
          [] out.cont = "async" ->
               [base EXCEPT !.waiting = "redis", !.afterMiss = CacheWritten]
          [] OTHER ->
               [base EXCEPT !.state = IF wrote THEN "RESPONDED" ELSE c.state]

\* RUNNING(i): the handler at index i runs, with the error when one is propagated.
Invoke(r) ==
    LET c == conn[r]
        chain == Chain(c.app)
    IN  /\ c.state = "RUNNING"
        /\ c.ready
        /\ c.index <= Len(chain)
        /\ LET layer == chain[c.index]
               params == IF layer.kind = "route" THEN Bind(layer.pattern, c.req.path) ELSE NoQuery
               ctx == [req |-> c.req, params |-> params, body |-> c.body,
                       users |-> users, error |-> c.err]
           IN  \E out \in Handle(layer.id, ctx) :
                 /\ conn' = [conn EXCEPT ![r] = After(c, chain, layer, params, out)]
                 /\ users' = out.users
                 /\ redisQ' = IF out.cont = "async"
                              THEN Append(redisQ, [op |-> "get", slot |-> r, val |-> Null])
                              ELSE redisQ
                 /\ UNCHANGED store

\* ERRORED(error, i): the nearest error handler after i runs next.
ErrorToHandler(r) ==
    LET c == conn[r]
        chain == Chain(c.app)
        j == NextIndex(chain, c.req, c.index + 1, TRUE)
    IN  /\ c.state = "ERRORED"
        /\ j <= Len(chain)
        /\ conn' = [conn EXCEPT ![r] = [c EXCEPT !.state = "RUNNING", !.index = j, !.ready = TRUE]]
        /\ UNCHANGED <<users, redisQ, store>>

\* ERRORED(error, i) with no error handler after i: the default fault response.
DefaultFault(r) ==
    LET c == conn[r]
        chain == Chain(c.app)
    IN  /\ c.state = "ERRORED"
        /\ NextIndex(chain, c.req, c.index + 1, TRUE) > Len(chain)
        /\ conn' = [conn EXCEPT ![r] =
                      [c EXCEPT !.state = "RESPONDED",
                                !.writes = c.writes + 1,
                                !.res = IF c.writes = 0 THEN DefaultFaultResponse ELSE c.res,
                                !.writer = IF c.writes = 0 THEN "finalhandler" ELSE c.writer]]
        /\ UNCHANGED <<users, redisQ, store>>

\* The chain is exhausted and no handler responded.
Finish(r) ==
    LET c == conn[r]
    IN  /\ c.state = "RUNNING"
        /\ c.ready
        /\ c.index > Len(Chain(c.app))
        /\ conn' = [conn EXCEPT ![r] = [c EXCEPT !.state = "DONE", !.ready = FALSE]]
        /\ UNCHANGED <<users, redisQ, store>>

\* The dispatch is over: the slot is free for the next request.
Close(r) ==
    /\ conn[r].state \in Terminal
    /\ conn' = [conn EXCEPT ![r] = IdleConn]
    /\ UNCHANGED <<users, redisQ, store>>

\* The redis server handles the commands of the one client in the order sent.
RedisProcess ==
    /\ redisQ # <<>>
    /\ LET cmd == Head(redisQ)
       IN  /\ conn' = IF cmd.op = "get"
                      THEN [conn EXCEPT ![cmd.slot].waiting = "reply", ![cmd.slot].reply = store]
                      ELSE conn
           /\ store' = IF cmd.op = "setex" THEN cmd.val ELSE store
    /\ redisQ' = Tail(redisQ)
    /\ UNCHANGED users

\* The callback of client.get('key', ...).
DataCallback(r) ==
    LET c == conn[r]
        hit == Truthy(c.reply)
    IN  /\ c.waiting = "reply"
        /\ \E data \in (IF hit THEN {c.reply} ELSE DbValues) :
             /\ redisQ' = IF hit THEN redisQ
                          ELSE Append(redisQ, [op |-> "setex", slot |-> r, val |-> data])
             /\ conn' = [conn EXCEPT ![r] =
                           [c EXCEPT !.state = "RESPONDED", !.waiting = "none",
                                     !.fetched = ~hit,
                                     !.writes = c.writes + 1,
                                     !.res = IF c.writes = 0 THEN Text(200, <<data>>) ELSE c.res,
                                     !.writer = IF c.writes = 0 THEN "getData248" ELSE c.writer]]
        /\ UNCHANGED <<users, store>>

\* The 3600 seconds of the key run out.
Expire ==
    /\ store # Null
    /\ store' = Null
    /\ conn' = [r \in DOMAIN conn |->
                  IF conn[r].waiting = "redis" THEN [conn[r] EXCEPT !.afterMiss = FALSE]
                  ELSE conn[r]]
    /\ UNCHANGED <<users, redisQ>>

\* ---------------------------------------------------------- specifications

Init ==
    /\ conn = [r \in 1..1 |-> IdleConn]
    /\ users = <<>>
    /\ redisQ = <<>>
    /\ store = Null

InitData ==
    /\ conn = [r \in 1..NData |-> IdleConn]
    /\ users = <<>>
    /\ redisQ = <<>>
    /\ store = Null

Next ==
    \/ NewRequest
    \/ \E r \in DOMAIN conn : Invoke(r)
    \/ \E r \in DOMAIN conn : ErrorToHandler(r)
    \/ \E r \in DOMAIN conn : DefaultFault(r)
    \/ \E r \in DOMAIN conn : Finish(r)
    \/ \E r \in DOMAIN conn : Close(r)
    \/ RedisProcess
    \/ \E r \in DOMAIN conn : DataCallback(r)
    \/ Expire

NextRest ==
    \/ NewRestRequest
    \/ \E r \in DOMAIN conn : Invoke(r)
    \/ \E r \in DOMAIN conn : DefaultFault(r)
    \/ \E r \in DOMAIN conn : Finish(r)
    \/ \E r \in DOMAIN conn : Close(r)

NextData ==
    \/ NewDataRequest
    \/ \E r \in DOMAIN conn : Invoke(r)
    \/ \E r \in DOMAIN conn : ErrorToHandler(r)
    \/ \E r \in DOMAIN conn : Close(r)
    \/ RedisProcess
    \/ \E r \in DOMAIN conn : DataCallback(r)
    \/ Expire

Spec == Init /\ [][Next]_vars
SpecRest == Init /\ [][NextRest]_vars
SpecData == InitData /\ [][NextData]_vars

\* ------------------------------------------------------------- properties

ChainOf(r) == Chain(conn[r].app)

\* The ids of the handlers invoked so far for the request in slot r, in order.
Ids(r) == [k \in 1..Len(conn[r].invoked) |-> ChainOf(r)[conn[r].invoked[k]].id]

InvokedSet(r) == {conn[r].invoked[k] : k \in 1..Len(conn[r].invoked)}

\* The id of the handler that signalled the error, "none" when none did.
FailedId(r) == IF conn[r].failedAt = 0 THEN "none" ELSE ChainOf(r)[conn[r].failedAt].id

\* The error handlers registered after index i that apply to the request.
ErrorHandlersAfter(r, i) ==
    {j \in Lookup(ChainOf(r), conn[r].req) : j > i /\ IsErrorHandler(ChainOf(r)[j])}

IsRequest(r, a, method, path) ==
    /\ conn[r].state # "IDLE"
    /\ conn[r].app = a
    /\ conn[r].req.method = method
    /\ conn[r].req.path = path

\* Some step of the dispatch of the request in slot r can be taken.
Progress(r) ==
    \/ Invoke(r)
    \/ ErrorToHandler(r)
    \/ DefaultFault(r)
    \/ Finish(r)
    \/ DataCallback(r)
    \/ (conn[r].waiting = "redis" /\ RedisProcess)

\* C1: a dispatch makes at most one terminal write; once a handler has written,
\* the dispatch is RESPONDED, the writer is the last handler invoked and no
\* further handler can be invoked.
C1_AtMostOneTerminalWrite ==
    \A r \in DOMAIN conn :
        LET c == conn[r]
        IN  /\ c.writes <= 1
            /\ c.writes = 1 => c.state = "RESPONDED"
            /\ c.state = "RESPONDED" =>
                 /\ c.writes = 1
                 /\ ~ENABLED Invoke(r)
                 /\ c.writer # "finalhandler" => Ids(r)[Len(c.invoked)] = c.writer

\* GET / on the main app is answered by the first route; static, the parsers
\* and the other layers that also match it are registered later and never run.
C1_Witness ==
    \E r \in DOMAIN conn :
        /\ IsRequest(r, "Main", "GET", <<>>)
        /\ conn[r].state = "RESPONDED"
        /\ conn[r].writer = "getRoot66"
        /\ \E j \in Lookup(ChainOf(r), conn[r].req) :
             j > conn[r].index /\ ~IsErrorHandler(ChainOf(r)[j])

\* C2: after the handler at index i signals an error, every handler invoked is
\* an error handler, the first of them is the nearest one registered after i,
\* and it receives the error; in the first app a failing express.static is
\* followed by the error handler only, the logger between them is skipped.
C2_ErrorGoesToNearestErrorHandler ==
    \A r \in DOMAIN conn :
        LET c == conn[r]
            i == c.failedAt
            later == {k \in 1..Len(c.invoked) : c.invoked[k] > i}
        IN  i # 0 =>
              /\ \A k \in later : IsErrorHandler(ChainOf(r)[c.invoked[k]])
              /\ later # {} =>
                   /\ ErrorHandlersAfter(r, i) # {}
                   /\ c.invoked[Min(later)] = Min(ErrorHandlersAfter(r, i))
                   /\ c.err # Null
              /\ (c.app = "App1" /\ FailedId(r) = "static28" /\ c.state \in Terminal) =>
                   /\ Ids(r) = <<"static28", "errorHandler37">>
                   /\ c.err = "static error"
                   /\ c.res = Text(500, <<"Something broke!">>)

C2_Witness ==
    \E r \in DOMAIN conn :
        /\ conn[r].app = "App1"
        /\ conn[r].state = "RESPONDED"
        /\ FailedId(r) = "static28"
        /\ conn[r].writer = "errorHandler37"
        /\ 2 \notin InvokedSet(r)

\* C3: a failure with no error handler registered after the failing handler
\* ends in RESPONDED with the default fault response, and no error handler
\* (in particular none registered earlier) is invoked; bodyParser.json of the
\* main app, registered after the only error handler, is such a handler.
C3_UnrecoveredFailureGetsDefaultFault ==
    \A r \in DOMAIN conn :
        LET c == conn[r]
        IN  /\ (c.failedAt # 0 /\ ErrorHandlersAfter(r, c.failedAt) = {}) =>
                 /\ c.state \in {"ERRORED", "RESPONDED"}
                 /\ c.state = "ERRORED" => ENABLED DefaultFault(r)
                 /\ c.state = "RESPONDED" =>
                      /\ c.res = DefaultFaultResponse
                      /\ \A j \in InvokedSet(r) : ~IsErrorHandler(ChainOf(r)[j])
            /\ (FailedId(r) \in {"bodyParserJson229", "getHello110"} /\ c.state \in Terminal) =>
                 /\ c.state = "RESPONDED"
                 /\ c.res = DefaultFaultResponse

C3_Witness ==
    \E r \in DOMAIN conn :
        /\ conn[r].app = "Main"
        /\ conn[r].state = "RESPONDED"
        /\ FailedId(r) = "bodyParserJson229"
        /\ conn[r].res = DefaultFaultResponse
        /\ \E j \in 1..(conn[r].failedAt - 1) : IsErrorHandler(ChainOf(r)[j])

\* C4: a dispatch that has not reached RESPONDED or DONE can always take a
\* step, it invokes at most chain-length handlers and none of them twice.
C4_EveryDispatchTerminates ==
    \A r \in DOMAIN conn :
        LET c == conn[r]
        IN  /\ c.state \in {"RUNNING", "ERRORED"} => ENABLED Progress(r)
            /\ Len(c.invoked) <= Len(ChainOf(r))
            /\ Cardinality(InvokedSet(r)) = Len(c.invoked)

C6_ParamSegmentBinds ==
    \A r \in DOMAIN conn :
        LET c == conn[r]
            path == c.req.path
        IN  /\ (\E k \in 1..Len(c.invoked) : Ids(r)[k] = "getUser75") =>
                 /\ Len(path) = 2
                 /\ path[1] = "users"
                 /\ path[2] # ""
                 /\ c.params = [userId |-> path[2]]
                 /\ c.res = Text(200, <<"User ID: ", path[2]>>)
            /\ (IsRequest(r, "Main", "GET", <<"users", "42">>) /\ c.state \in Terminal) =>
                 /\ c.writer = "getUser75"
                 /\ c.params = [userId |-> "42"]
            /\ (IsRequest(r, "Main", "GET", <<"users">>) /\ c.state \in Terminal) =>
                 c.writer # "getUser75"

C6_Witness ==
    \E r \in DOMAIN conn :
        /\ IsRequest(r, "Main", "GET", <<"users", "42">>)
        /\ conn[r].state = "RESPONDED"
        /\ conn[r].params = [userId |-> "42"]

IsSearchCats(r) ==
    /\ IsRequest(r, "Main", "GET", <<"search">>)
    /\ conn[r].req.query = Query("cats")

\* C7 as stated: GET /search?q=cats ends in RESPONDED with the body "cats".
C7_BodyIsCats ==
    \A r \in DOMAIN conn :
        (IsSearchCats(r) /\ conn[r].state \in Terminal) =>
            /\ conn[r].state = "RESPONDED"
            /\ conn[r].res.payload = <<"cats">>

\* C7 as amended: GET /search?q=cats ends in RESPONDED with the body
\* "Search Query: cats", written by the /search handler.
C7_BodyIsSearchQueryCats ==
    \A r \in DOMAIN conn :
        /\ (IsSearchCats(r) /\ conn[r].state \in Terminal) =>
              /\ conn[r].state = "RESPONDED"
              /\ conn[r].writer = "getSearch80"
              /\ conn[r].res = Text(200, <<"Search Query: ", "cats">>)
        /\ (IsSearchCats(r) /\ conn[r].state \notin Terminal) => ENABLED Invoke(r)

C7_Witness ==
    \E r \in DOMAIN conn :
        /\ IsSearchCats(r)
        /\ conn[r].state = "RESPONDED"
        /\ conn[r].res.payload = <<"Search Query: ", "cats">>

\* C8: an error handler is invoked only after a handler before it signalled an
\* error; GET / on the first app, when no handler fails, is answered by
\* express.static or by the route handler after the logger, never with the
\* 500 'Something broke!' of the error handler registered between them.
C8_ErrorHandlerOnlyAfterError ==
    \A r \in DOMAIN conn :
        LET c == conn[r]
        IN  /\ \A j \in InvokedSet(r) :
                 IsErrorHandler(ChainOf(r)[j]) => (c.failedAt # 0 /\ j > c.failedAt)
            /\ (IsRequest(r, "App1", "GET", <<>>) /\ c.failedAt = 0 /\ c.state \in Terminal) =>
                 /\ c.res # Text(500, <<"Something broke!">>)
                 /\ \/ c.writer = "static28"
                    \/ /\ Ids(r) = <<"static28", "logger31", "getRoot42">>
                       /\ c.res = Text(200, <<"Hello World!">>)

C8_Witness ==
    \E r \in DOMAIN conn :
        /\ IsRequest(r, "App1", "GET", <<>>)
        /\ conn[r].state = "RESPONDED"
        /\ Ids(r) = <<"static28", "logger31", "getRoot42">>
        /\ conn[r].res = Text(200, <<"Hello World!">>)

\* The request body as the JSON parser hands it to the handlers.
RequestBody(r) ==
    IF conn[r].req.body.kind = "json" THEN conn[r].req.body.obj ELSE EmptyObject

\* The step in which the PUT /api/users/:userId handler runs.
PutStep(r) ==
    /\ conn[r].state = "RUNNING"
    /\ conn[r].ready
    /\ conn[r].index <= Len(ChainOf(r))
    /\ ChainOf(r)[conn[r].index].id = "putUser193"
    /\ conn'[r] # conn[r]

\* C9: PUT /api/users/:userId replaces exactly the stored users whose id is
\* strictly equal to the userId segment by the request body, keeps every other
\* user, the order and the length, and responds with the request body.
C9_PutReplacesExactlyMatching ==
    [][\A r \in DOMAIN conn :
         PutStep(r) =>
           /\ Len(users') = Len(users)
           /\ \A k \in 1..Len(users) :
                users'[k] = IF users[k].id = JsString(conn[r].req.path[3])
                            THEN RequestBody(r) ELSE users[k]
           /\ conn'[r].state = "RESPONDED"
           /\ conn'[r].res = Json(200, RequestBody(r))]_vars

\* After PUT /api/users/1: the first user was replaced by a body with another id,
\* the second, whose id is the number 1, was kept.
C9_Witness ==
    \E r \in DOMAIN conn :
        /\ conn[r].state = "RESPONDED"
        /\ conn[r].writer = "putUser193"
        /\ conn[r].req.path[3] = "1"
        /\ Len(users) = 2
        /\ users[1] = RequestBody(r)
        /\ users[1].id = JsString("2")
        /\ users[2].id = JsNumber("1")

\* C10: a /data request sends exactly one response, and one whose cache lookup
\* started after a miss branch completed, the entry not expired, responds with
\* the cached value without calling fetchDataFromDatabase.
C10_LaterLookupsServedFromCache ==
    \A r \in DOMAIN conn :
        LET c == conn[r]
        IN  (c.state = "RESPONDED" /\ c.writer = "getData248") =>
              /\ c.writes = 1
              /\ c.afterMiss => (~c.fetched /\ c.res = Text(200, <<c.reply>>))

====
